---- MODULE Spec2Model ----
(***************************************************************************)
(* X-followers (src/x-followers.py): the collection pipeline               *)
(*   main -> get_all_follower_ids -> get_user_details ->                   *)
(*   display_top_followers                                                 *)
(* as a state machine.  One action is one iteration of a request loop (one *)
(* HTTP request together with everything the code does with its response), *)
(* so every provider response is an input of the action that receives it.  *)
(*                                                                         *)
(* Identifiers are modelled as naturals: str(id), id_str and the id column *)
(* read back by pandas are the same canonical decimal text of the same     *)
(* number, so string equality is number equality.  A Store row keeps the   *)
(* two fields the pipeline reads again (id, followers_count); timestamp,   *)
(* screen_name, name and created_at are written once with the row and      *)
(* never read by the collection pipeline.                                  *)
(***************************************************************************)
EXTENDS Integers, Sequences, FiniteSets, TLC

(* ---------- bounds of the model ---------- *)
\* identifiers are 1..MaxId
MaxId == 2
\* the remote follower list of a faithful provider has at most MaxFollowers
\* entries (repeats allowed)
MaxFollowers == 4
\* number of times main is started
MaxRuns == 2
\* provider responses in one behaviour that are not a faithful success (429,
\* 404, other statuses, connection errors, unfaithful lookup answers)
MaxFaults == 3
\* an x-rate-limit-reset header names an instant at most MaxOffset seconds
\* before or after the moment the response is handled
MaxOffset == 2
\* a row found in the Store at the start has a followers_count of at most
\* MaxFollowersCount
MaxFollowersCount == 2

(* ---------- program constants ---------- *)
\* get_user_details(..., retries=3, ...)
retries == 3
\* range(0, total_ids, 100): the batch size, scaled down from 100
ChunkSize == 2
\* "count": 5000: the listing page size, scaled down from 5000
PageSize == 2
\* top_n = 20, scaled down
top_n == 2
\* get_user_details(..., delay=5): seconds slept after a ConnectionError
delay == 5
\* time.time() + 60: the reset instant assumed when the header is missing
default_reset == 60

Ids == 1..MaxId

Min(a, b) == IF a < b THEN a ELSE b

Max(a, b) == IF a > b THEN a ELSE b

Range(s) == {s[k] : k \in 1..Len(s)}

SeqsUpTo(S, n) == UNION {[1..k -> S] : k \in 0..n}

RECURSIVE Filter(_, _)
\* [x for x in s if x not in known]
Filter(s, known) ==
    IF s = <<>> THEN <<>>
    ELSE IF Head(s) \in known THEN Filter(Tail(s), known)
         ELSE <<Head(s)>> \o Filter(Tail(s), known)

(* ---------- state ---------- *)
VARIABLES
    \* the provider (environment)
    followers,          \* the account's follower list, as the listing returns it
    resolvable,         \* ids the batch lookup still resolves (others: deleted)
    remote_count,       \* followers_count the count endpoint reports
    provider,           \* what it may answer: the statuses it may fail with,
                        \* whether a lookup body may be unfaithful, and the
                        \* reset headers of its 429s
    budget,             \* responses other than a faithful success it may still give
    \* the Store: "<handle>_followers.csv"
    fileExists,
    store,              \* the rows below the header, in file order
    \* one run of main
    runs,
    pc,
    use_existing_data_only,
    existing_ids,       \* main: load_existing_user_ids(filename)
    total_followers, follower_ids, next_cursor, total_retrieved, skipped_ids,
    progress_percentage,
    ids_list, known_ids, i, attempt, processed_ids, details_progress,
    response,           \* status of the last response ("none" before any)
    sleep_duration,     \* seconds slept after the last response (0: none)
    reset_header,       \* the x-rate-limit-reset header of the last response
    error,              \* the exception that ended the run, "none" otherwise
    requests,           \* requests issued by this run, in order
    connection_errors,  \* ConnectionErrors caught for the chunk last requested
    interrupted,        \* -1, or the chunks appended by the last killed run
    exhausted_ids,      \* ids of the chunks skipped after retries ConnectionErrors
    appended,           \* chunks appended to the Store by this run
    report              \* rows printed by display_top_followers

remoteVars == <<followers, resolvable, remote_count, provider>>
envVars == <<budget>>
storeVars == <<fileExists, store>>
collectVars == <<total_followers, follower_ids, next_cursor, total_retrieved,
                 skipped_ids, progress_percentage>>
enrichVars == <<ids_list, known_ids, i, attempt, processed_ids, details_progress>>
vars == <<followers, resolvable, remote_count, provider, budget, fileExists, store,
          runs, pc, use_existing_data_only, existing_ids,
          total_followers, follower_ids, next_cursor, total_retrieved, skipped_ids,
          progress_percentage,
          ids_list, known_ids, i, attempt, processed_ids, details_progress,
          response, sleep_duration, reset_header, error, requests,
          connection_errors, interrupted, exhausted_ids, appended, report>>

(* ---------- the provider ---------- *)
\* followers_count of a user's profile, a fixed attribute of the remote account
FollowersCountOf(id) == (2 * id) % 3

\* one user object of a users/lookup response
User(id) == [id |-> id, followers_count |-> FollowersCountOf(id)]

NumPages == IF followers = <<>> THEN 1 ELSE (Len(followers) + PageSize - 1) \div PageSize

\* the page a followers/ids request with this cursor is answered with
PageOf(cursor) == IF cursor = -1 THEN 1 ELSE cursor

PageIds(p) == SubSeq(followers, (p - 1) * PageSize + 1, Min(p * PageSize, Len(followers)))

\* the "next_cursor" field of page p; the last page carries 0 or omits the field
\* (a field is <<value>>, an omitted field is <<>>)
NextCursorFields(p) == IF p < NumPages THEN {<<p + 1>>} ELSE {<<0>>, <<>>}

\* data.get(key, default)
Get(field, default) == IF field = <<>> THEN default ELSE field[1]

RECURSIVE Distinct(_)
Distinct(s) ==
    IF s = <<>> THEN <<>>
    ELSE <<Head(s)>> \o Filter(Distinct(Tail(s)), {Head(s)})

\* the faithful answer to a batch lookup: each requested account that still
\* exists, once
HonestLookup(chunk) == Filter(Distinct(chunk), Ids \ resolvable)

\* any answer the endpoint can give: a JSON list of users (here of at most as
\* many users as a batch holds)
AnyLookup == SeqsUpTo(Ids, ChunkSize)

\* what the count endpoint may report: zero, or one page's worth (stale for
\* every list of another length; smaller than a list of two pages, so that the
\* ratio passes 100 before min caps it)
CountEstimates == {0, PageSize}

\* the follower lists of a provider that may fail: up to one follower more
\* than a page and a batch hold, so there are up to two pages and two chunks
FewFollowers == SeqsUpTo(Ids, ChunkSize + 1)

\* response.status_code, as text; "500" stands for every status other than
\* 200, 429 and 404
ErrorStatuses == {"429", "404", "500"}

\* response.headers.get('x-rate-limit-reset'): missing, a text that is not an
\* integer, or the decimal text of an instant; the instant is given as its
\* offset in seconds from int(time.time()) of the line that computes the sleep
ResetOffsets == (0 - MaxOffset)..MaxOffset

ResetHeaders ==
    {[kind |-> "absent", offset |-> 0], [kind |-> "malformed", offset |-> 0]}
        \cup {[kind |-> "int", offset |-> d] : d \in ResetOffsets}

\* a response that is not a 429 carries no reset header that is read
NoHeader == [kind |-> "none", offset |-> 0]

\* the header of a provider that announces the reset one second ahead
ResetSoon == [kind |-> "int", offset |-> 1]

\* whole seconds that may pass between time.time() + 60 (the default of
\* headers.get) and the int(time.time()) the sleep is computed from
Ticks == {0, 1}

\* reset_time - int(time.time()) for a header that int() accepts
ResetIn(header, tick) ==
    IF header.kind = "absent" THEN default_reset - tick ELSE header.offset

\* a provider that may fail with every status and every body
Unreliable ==
    [statuses |-> ErrorStatuses \cup {"ConnectionError"}, unfaithful |-> TRUE,
     headers |-> {ResetSoon}]

\* a provider that may fail with every status but answers a successful lookup
\* with the requested accounts
Faithful ==
    [statuses |-> ErrorStatuses \cup {"ConnectionError"}, unfaithful |-> FALSE,
     headers |-> {ResetSoon}]

\* a provider whose only failure is the rate limit, with any reset header
RateLimiting ==
    [statuses |-> {"429"}, unfaithful |-> FALSE, headers |-> ResetHeaders]

Request(endpoint, cursor, user_id) ==
    [endpoint |-> endpoint, cursor |-> cursor, user_id |-> user_id]

(* ---------- the Store ---------- *)
\* (variant: the id column is never read back)
load_existing_user_ids_none == {}

\* load_existing_user_ids(filename)
load_existing_user_ids == IF fileExists THEN {store[k].id : k \in 1..Len(store)} ELSE {}

RowsOf(data) == [k \in 1..Len(data) |-> User(data[k])]

\* (variant: mode='w', the file is rewritten with the batch)
AppendRows_overwrite(rows, data) == RowsOf(data)

\* pd.DataFrame(new_data).to_csv(filename, mode='a', header=False, index=False)
AppendRows(rows, data) == rows \o RowsOf(data)

(* ---------- initial state ---------- *)
\* main not started
InitLocals ==
    /\ runs = 0
    /\ pc = "idle"
    /\ use_existing_data_only = TRUE
    /\ existing_ids = {}
    /\ total_followers = 0
    /\ follower_ids = <<>>
    /\ next_cursor = -1
    /\ total_retrieved = 0
    /\ skipped_ids = 0
    /\ progress_percentage = 0
    /\ ids_list = <<>>
    /\ known_ids = {}
    /\ i = 0
    /\ attempt = 0
    /\ processed_ids = 0
    /\ details_progress = 0
    /\ response = "none"
    /\ sleep_duration = 0
    /\ reset_header = NoHeader
    /\ error = "none"
    /\ requests = <<>>
    /\ connection_errors = 0
    /\ interrupted = -1
    /\ exhausted_ids = {}
    /\ appended = 0
    /\ report = <<>>

\* the run-independent part: no Store yet, main not started
InitRun ==
    /\ fileExists = FALSE
    /\ store = <<>>
    /\ InitLocals

\* a provider that may fail or answer unfaithfully up to MaxFaults times
Init ==
    /\ followers \in FewFollowers
    /\ resolvable = Ids
    /\ remote_count \in CountEstimates
    /\ provider = Unreliable
    /\ budget = MaxFaults
    /\ InitRun

\* a provider that answers every request successfully and faithfully; some
\* of the listed accounts may no longer exist
InitHonest ==
    /\ followers \in SeqsUpTo(Ids, MaxFollowers)
    /\ resolvable \in SUBSET Ids
    /\ remote_count \in CountEstimates
    /\ provider = Unreliable
    /\ budget = 0
    /\ InitRun

\* a provider that rate-limits up to MaxFaults requests and otherwise answers
\* faithfully, with an estimate that is not zero
InitRateLimited ==
    /\ followers \in FewFollowers
    /\ resolvable = Ids
    /\ remote_count = PageSize
    /\ provider = RateLimiting
    /\ budget = MaxFaults
    /\ InitRun

\* a provider that fails up to MaxFaults requests and answers the others
\* faithfully, with an estimate that is not zero
InitFaithful ==
    /\ followers \in FewFollowers
    /\ resolvable = Ids
    /\ remote_count = PageSize
    /\ provider = Faithful
    /\ budget = MaxFaults
    /\ InitRun

\* the rows a CSV left by earlier runs may hold: any id with any count
StoredRows == [id : Ids, followers_count : 0..MaxFollowersCount]

\* main is started with whatever earlier runs left: no file, or a file with
\* any rows (up to one row more than the report shows); the account has at
\* most one follower and the provider answers faithfully
InitStored ==
    /\ followers \in SeqsUpTo(Ids, 1)
    /\ resolvable = Ids
    /\ remote_count = PageSize
    /\ provider = Unreliable
    /\ budget = 0
    /\ \/ /\ fileExists = FALSE
          /\ store = <<>>
       \/ /\ fileExists = TRUE
          /\ store \in SeqsUpTo(StoredRows, top_n + 1)
    /\ InitLocals

(* ---------- helpers of the run ---------- *)
Running == pc \in {"count", "listing", "lookup", "report"}

\* an uncaught exception ends the process
Raise(kind) ==
    /\ pc' = "aborted"
    /\ error' = kind

\* ids_list[i:i + 100]
Chunk(list, j) == SubSeq(list, j + 1, Min(j + ChunkSize, Len(list)))

RECURSIVE NextChunk(_, _, _)
\* for i in range(0, total_ids, 100): the first chunk at or after j that is
\* not empty after filtering (lines 153-156 skip the empty ones)
NextChunk(j, list, known) ==
    IF j >= Len(list) THEN j
    ELSE IF Filter(Chunk(list, j), known) # <<>> THEN j
         ELSE NextChunk(j + ChunkSize, list, known)

\* ids_chunk of the chunk being looked up
ids_chunk == Filter(Chunk(ids_list, i), known_ids)

\* get_user_details(list, filename) up to its first request
GetUserDetails(list) ==
    /\ ids_list' = list
    /\ known_ids' = load_existing_user_ids
    /\ fileExists' = TRUE
    /\ processed_ids' = 0
    /\ details_progress' = 0
    /\ attempt' = 0
    /\ i' = NextChunk(0, list, load_existing_user_ids)
    /\ pc' = IF NextChunk(0, list, load_existing_user_ids) >= Len(list)
             THEN "report" ELSE "lookup"

\* the retry loop of a chunk is left: progress, then on to the next chunk
FinishChunk(known, processed) ==
    /\ details_progress' = (processed * 100) \div Len(ids_list)
    /\ attempt' = 0
    /\ i' = NextChunk(i + ChunkSize, ids_list, known)
    /\ pc' = IF NextChunk(i + ChunkSize, ids_list, known) >= Len(ids_list)
             THEN "report" ELSE "lookup"

\* main after get_all_follower_ids returned list
AfterCollect(list) ==
    IF use_existing_data_only
    THEN GetUserDetails(list)
    ELSE IF Filter(list, existing_ids) # <<>>
         THEN GetUserDetails(Filter(list, existing_ids))
         ELSE /\ pc' = "report"
              /\ UNCHANGED <<enrichVars, fileExists>>

\* one more response that is not a faithful success
Fault ==
    /\ budget > 0
    /\ budget' = budget - 1

NoFault == UNCHANGED budget

(* ---------- main ---------- *)
\* (variant: the file is not looked at, the run always collects)
FirstStep_collects(flag) == "count"

\* lines 265-273: with use_existing_data_only and the file present main goes
\* straight to the report, otherwise it starts collecting
FirstStep(flag) == IF flag /\ fileExists THEN "report" ELSE "count"

Main(flag) ==
    /\ pc \in {"idle", "done", "aborted", "interrupted"}
    /\ runs < MaxRuns
    /\ runs' = runs + 1
    /\ use_existing_data_only' = flag
    /\ existing_ids' = load_existing_user_ids
    /\ pc' = FirstStep(flag)
    /\ total_followers' = 0
    /\ follower_ids' = <<>>
    /\ next_cursor' = -1
    /\ total_retrieved' = 0
    /\ skipped_ids' = 0
    /\ progress_percentage' = 0
    /\ ids_list' = <<>>
    /\ known_ids' = {}
    /\ i' = 0
    /\ attempt' = 0
    /\ processed_ids' = 0
    /\ details_progress' = 0
    /\ response' = "none"
    /\ sleep_duration' = 0
    /\ reset_header' = NoHeader
    /\ error' = "none"
    /\ requests' = <<>>
    /\ connection_errors' = 0
    /\ appended' = 0
    /\ report' = <<>>
    /\ UNCHANGED <<remoteVars, envVars, storeVars, interrupted, exhausted_ids>>

(* ---------- get_follower_count ---------- *)
GetFollowerCount ==
    /\ pc = "count"
    /\ requests' = Append(requests, Request("show", 0, <<>>))
    /\ \/ /\ response' = "200"
          /\ total_followers' = remote_count
          /\ pc' = "listing"
          /\ NoFault
          /\ UNCHANGED error
       \/ /\ \E status \in ErrorStatuses \cap provider.statuses : response' = status
          /\ Raise("Exception")
          /\ Fault
          /\ UNCHANGED total_followers
       \/ /\ response' = "ConnectionError"
          /\ "ConnectionError" \in provider.statuses
          /\ Raise("ConnectionError")
          /\ Fault
          /\ UNCHANGED total_followers
    /\ sleep_duration' = 0
    /\ reset_header' = NoHeader
    /\ UNCHANGED <<remoteVars, storeVars, runs, use_existing_data_only, existing_ids,
                   follower_ids, next_cursor, total_retrieved, skipped_ids,
                   progress_percentage, enrichVars, connection_errors, interrupted,
                   exhausted_ids,
                   appended, report>>

(* ---------- get_all_follower_ids: one iteration of the while loop ---------- *)
FollowerIdsPage(field) ==
    LET retrieved_ids == PageIds(PageOf(next_cursor))
        new_ids == Filter(retrieved_ids, existing_ids)
        all_ids == follower_ids \o new_ids
    IN  /\ response' = "200"
        /\ sleep_duration' = 0
        /\ reset_header' = NoHeader
        /\ NoFault
        /\ skipped_ids' = skipped_ids + Len(retrieved_ids) - Len(new_ids)
        /\ follower_ids' = all_ids
        /\ total_retrieved' = total_retrieved + Len(new_ids)
        /\ next_cursor' = Get(field, 0)
        /\ IF total_followers = 0
           THEN /\ Raise("ZeroDivisionError")
                /\ UNCHANGED <<progress_percentage, enrichVars, fileExists>>
           ELSE /\ progress_percentage' =
                       Min(((total_retrieved + Len(new_ids)) * 100) \div total_followers, 100)
                /\ UNCHANGED error
                /\ IF Get(field, 0) = 0
                   THEN AfterCollect(all_ids)
                   ELSE /\ pc' = "listing"
                        /\ UNCHANGED <<enrichVars, fileExists>>

\* lines 77-83: int() of the header (ValueError if it is not an integer),
\* sleep, continue
FollowerIdsRateLimited(header, tick) ==
    IF header.kind = "malformed"
    THEN /\ Raise("ValueError")
         /\ sleep_duration' = 0
         /\ reset_header' = header
    ELSE /\ sleep_duration' = Max(ResetIn(header, tick), 1)
         /\ reset_header' = header
         /\ UNCHANGED <<pc, error>>

FollowerIdsRequest ==
    /\ pc = "listing"
    /\ requests' = Append(requests, Request("ids", next_cursor, <<>>))
    /\ \/ \E field \in NextCursorFields(PageOf(next_cursor)) : FollowerIdsPage(field)
       \/ /\ response' = "429"
          /\ "429" \in provider.statuses
          /\ Fault
          /\ \E header \in provider.headers, tick \in Ticks :
                FollowerIdsRateLimited(header, tick)
          /\ UNCHANGED <<collectVars, enrichVars, fileExists>>
       \/ /\ \E status \in (ErrorStatuses \ {"429"}) \cap provider.statuses :
                response' = status
          /\ Raise("Exception")
          /\ Fault
          /\ sleep_duration' = 0
          /\ reset_header' = NoHeader
          /\ UNCHANGED <<collectVars, enrichVars, fileExists>>
       \/ /\ response' = "ConnectionError"
          /\ "ConnectionError" \in provider.statuses
          /\ Raise("ConnectionError")
          /\ Fault
          /\ sleep_duration' = 0
          /\ reset_header' = NoHeader
          /\ UNCHANGED <<collectVars, enrichVars, fileExists>>
    /\ UNCHANGED <<remoteVars, store, runs, use_existing_data_only, existing_ids,
                   total_followers, connection_errors, interrupted, exhausted_ids,
                   appended, report>>

(* ---------- get_user_details: one attempt of the retry loop ---------- *)
\* (variant: the resolved ids are not remembered)
MarkKnown_forgets(known, data) == known

\* existing_ids.add(user['id_str']) for each user of the response
MarkKnown(known, data) == known \cup Range(data)

UsersLookupData(data) ==
    /\ response' = "200"
    /\ sleep_duration' = 0
    /\ reset_header' = NoHeader
    /\ store' = AppendRows(store, data)
    /\ known_ids' = MarkKnown(known_ids, data)
    /\ processed_ids' = processed_ids + Len(ids_chunk)
    /\ appended' = appended + 1
    /\ FinishChunk(MarkKnown(known_ids, data), processed_ids + Len(ids_chunk))
    /\ UNCHANGED error

\* (variant: one attempt too many)
NextAttempt_offbyone ==
    IF attempt + 1 <= retries
    THEN /\ attempt' = attempt + 1
         /\ UNCHANGED <<pc, i, details_progress, error>>
    ELSE /\ FinishChunk(known_ids, processed_ids)
         /\ UNCHANGED error

\* (variant: the last ConnectionError is raised again)
NextAttempt_reraise ==
    IF attempt + 1 < retries
    THEN /\ attempt' = attempt + 1
         /\ UNCHANGED <<pc, i, details_progress, error>>
    ELSE /\ Raise("ConnectionError")
         /\ UNCHANGED <<i, attempt, details_progress>>

\* attempt of range(retries) ended by continue
NextAttempt ==
    IF attempt + 1 < retries
    THEN /\ attempt' = attempt + 1
         /\ UNCHANGED <<pc, i, details_progress, error>>
    ELSE /\ FinishChunk(known_ids, processed_ids)
         /\ UNCHANGED error

\* (variant: the except clause catches every Exception)
LookupApiError_caught == NextAttempt

\* raise Exception(...) at line 172 is not a ConnectionError: the except
\* clause does not catch it
LookupApiError ==
    /\ Raise("Exception")
    /\ UNCHANGED <<i, attempt, details_progress>>

\* lines 167-170: int() of the header (ValueError if it is not an integer;
\* the except clause catches ConnectionError only), sleep, continue
UsersLookupRateLimited(header, tick) ==
    IF header.kind = "malformed"
    THEN /\ Raise("ValueError")
         /\ sleep_duration' = 0
         /\ reset_header' = header
         /\ UNCHANGED <<i, attempt, details_progress>>
    ELSE /\ sleep_duration' = Max(ResetIn(header, tick) + 1, 0)
         /\ reset_header' = header
         /\ NextAttempt

\* ConnectionErrors caught so far in the retry loop of the chunk
CaughtBefore == IF attempt = 0 THEN 0 ELSE connection_errors

UsersLookupRequest ==
    /\ pc = "lookup"
    /\ requests' = Append(requests, Request("lookup", 0, ids_chunk))
    /\ \/ /\ UsersLookupData(HonestLookup(ids_chunk))
          /\ NoFault
          /\ connection_errors' = CaughtBefore
          /\ UNCHANGED exhausted_ids
       \/ /\ provider.unfaithful
          /\ \E data \in AnyLookup \ {HonestLookup(ids_chunk)} : UsersLookupData(data)
          /\ Fault
          /\ connection_errors' = CaughtBefore
          /\ UNCHANGED exhausted_ids
       \/ /\ response' = "404"
          /\ "404" \in provider.statuses
          /\ Fault
          /\ FinishChunk(known_ids, processed_ids)
          /\ sleep_duration' = 0
          /\ reset_header' = NoHeader
          /\ connection_errors' = CaughtBefore
          /\ UNCHANGED exhausted_ids
          /\ UNCHANGED <<store, known_ids, processed_ids, appended, error>>
       \/ /\ response' = "429"
          /\ "429" \in provider.statuses
          /\ Fault
          /\ \E header \in provider.headers, tick \in Ticks :
                UsersLookupRateLimited(header, tick)
          /\ connection_errors' = CaughtBefore
          /\ UNCHANGED exhausted_ids
          /\ UNCHANGED <<store, known_ids, processed_ids, appended>>
       \/ /\ response' = "500"
          /\ "500" \in provider.statuses
          /\ Fault
          /\ LookupApiError
          /\ sleep_duration' = 0
          /\ reset_header' = NoHeader
          /\ connection_errors' = CaughtBefore
          /\ UNCHANGED exhausted_ids
          /\ UNCHANGED <<store, known_ids, processed_ids, appended>>
       \/ /\ response' = "ConnectionError"
          /\ "ConnectionError" \in provider.statuses
          /\ Fault
          /\ NextAttempt
          /\ sleep_duration' = delay
          /\ reset_header' = NoHeader
          /\ connection_errors' = CaughtBefore + 1
          /\ exhausted_ids' = IF CaughtBefore + 1 = retries
                              THEN exhausted_ids \cup Range(ids_chunk)
                              ELSE exhausted_ids
          /\ UNCHANGED <<store, known_ids, processed_ids, appended>>
    /\ UNCHANGED <<remoteVars, fileExists, runs, use_existing_data_only, existing_ids,
                   collectVars, ids_list, interrupted, report>>

(* ---------- display_top_followers ---------- *)
RECURSIVE InsertDesc(_, _)
\* row placed after every row whose followers_count is not smaller
InsertDesc(row, sorted) ==
    IF sorted = <<>> THEN <<row>>
    ELSE IF Head(sorted).followers_count >= row.followers_count
         THEN <<Head(sorted)>> \o InsertDesc(row, Tail(sorted))
         ELSE <<row>> \o sorted

\* (variant: the sorted frame is not the one that is shown)
SortValues_unsorted(rows) == rows

RECURSIVE SortValues(_)
\* df.sort_values(by='followers_count', ascending=False)
SortValues(rows) ==
    IF rows = <<>> THEN <<>>
    ELSE InsertDesc(rows[Len(rows)], SortValues(SubSeq(rows, 1, Len(rows) - 1)))

\* df.head(n)
DfHead(rows, n) == SubSeq(rows, 1, Min(n, Len(rows)))

DisplayTopFollowers ==
    /\ pc = "report"
    /\ IF fileExists
       THEN /\ report' = DfHead(SortValues(store), top_n)
            /\ pc' = "done"
            /\ UNCHANGED error
       ELSE /\ Raise("FileNotFoundError")
            /\ UNCHANGED report
    /\ UNCHANGED <<remoteVars, envVars, storeVars, runs, use_existing_data_only,
                   existing_ids, collectVars, enrichVars, response, sleep_duration,
                   reset_header, requests, connection_errors, interrupted,
                   exhausted_ids, appended>>

(* ---------- the process is killed ---------- *)
Interrupt ==
    /\ Running
    /\ pc' = "interrupted"
    /\ interrupted' = appended
    \* the memory of the process is gone; the file stays
    /\ existing_ids' = {}
    /\ total_followers' = 0
    /\ follower_ids' = <<>>
    /\ next_cursor' = -1
    /\ total_retrieved' = 0
    /\ skipped_ids' = 0
    /\ progress_percentage' = 0
    /\ ids_list' = <<>>
    /\ known_ids' = {}
    /\ i' = 0
    /\ attempt' = 0
    /\ processed_ids' = 0
    /\ details_progress' = 0
    /\ UNCHANGED <<remoteVars, envVars, storeVars, runs, use_existing_data_only,
                   response, sleep_duration, reset_header, error, requests,
                   connection_errors, exhausted_ids, appended, report>>

Next ==
    \/ \E flag \in BOOLEAN : Main(flag)
    \/ GetFollowerCount
    \/ FollowerIdsRequest
    \/ UsersLookupRequest
    \/ DisplayTopFollowers
    \/ Interrupt

Spec == Init /\ [][Next]_vars

SpecHonest == InitHonest /\ [][Next]_vars

SpecRateLimited == InitRateLimited /\ [][Next]_vars

SpecStored == InitStored /\ [][Next]_vars

SpecFaithful == InitFaithful /\ [][Next]_vars

TypeOK ==
    /\ fileExists \in BOOLEAN
    /\ ~fileExists => store = <<>>
    /\ pc \in {"idle", "count", "listing", "lookup", "report", "done", "aborted",
               "interrupted"}
    /\ pc = "lookup" => ids_chunk # <<>> /\ attempt < retries

(* ====================== the claims ====================== *)
StoreIds == {store[k].id : k \in 1..Len(store)}

\* the step issues a request
Requesting == Len(requests') = Len(requests) + 1

\* C1 -- Dedup invariant: in every reachable state, whatever the listing pages
\* and the lookup responses were, the Store holds at most one row per id.
\* (Stated as claimed; the code appends every user of a response unchecked.)
C1_DedupInvariant ==
    \A a, b \in 1..Len(store) : store[a].id = store[b].id => a = b

\* C2 -- Idempotence: with a provider that answers every request successfully
\* and identically and an unchanged follower list, once main has run to its
\* end no step of a later run changes the rows of the Store.
C2_Idempotence ==
    [][(runs >= 2 /\ interrupted = -1) => store' = store]_vars

\* a second uninterrupted run in fetch mode ended after collecting and looking
\* up again the ids that are not in the (non-empty) Store
C2_Witness ==
    /\ runs = 2 /\ pc = "done" /\ interrupted = -1
    /\ ~use_existing_data_only
    /\ store # <<>>
    /\ \E k \in 1..Len(requests) : requests[k].endpoint = "lookup"

\* the Store an uninterrupted run produces from an empty Store: one row for
\* each listed account that still exists, in listing order
UninterruptedStore == RowsOf(HonestLookup(followers))

\* a run was killed after it had appended at least one chunk, rows included
Resumed == interrupted >= 1 /\ store # <<>>

\* C3 (as claimed) -- Resumability under either flag value: a run restarted
\* after a kill that followed N >= 1 appended chunks ends with the Store of an
\* uninterrupted run.
C3_ResumeEitherFlag ==
    (Resumed /\ pc \in {"done", "aborted"}) => store = UninterruptedStore

\* C3 (amended) -- Resumability with use_existing_data_only = False: the
\* restarted run looks up only ids that are not in the Store, reaches the
\* report, and ends with the Store of an uninterrupted run.
C3_Resumability ==
    /\ [](Resumed /\ ~use_existing_data_only /\ pc \in {"done", "aborted"}
            => pc = "done" /\ store = UninterruptedStore)
    /\ [][(Resumed /\ pc = "lookup" /\ Requesting)
            => Range(ids_chunk) \cap StoreIds = {}]_vars

\* a restarted run in fetch mode appended what the killed run had left and
\* reached the report
C3_Witness ==
    /\ Resumed /\ ~use_existing_data_only /\ pc = "done"
    /\ appended >= 1
    /\ Len(store) >= 2

\* the cursors of the followers/ids requests of this run, in order
CursorsRequested ==
    LET ids == SelectSeq(requests, LAMBDA r : r.endpoint = "ids")
    IN  [k \in 1..Len(ids) |-> ids[k].cursor]

\* the cursors of the first n pages: -1, then each page's next_cursor
CursorsOfPages(n) == [k \in 1..n |-> IF k = 1 THEN -1 ELSE k]

\* get_all_follower_ids has returned in this run
Collected == requests # <<>> /\ pc \in {"lookup", "report", "done"}

\* C4 -- Pagination termination: with successful pages ending in the terminal
\* cursor, get_all_follower_ids raises nothing, requests each page exactly
\* once in cursor order starting from -1, and returns exactly the ids of all
\* pages that are not in known_ids.
C4_PaginationTermination ==
    /\ error \in {"none", "FileNotFoundError"}
    /\ pc = "listing" => CursorsRequested = CursorsOfPages(PageOf(next_cursor) - 1)
    /\ Collected =>
          /\ CursorsRequested = CursorsOfPages(NumPages)
          /\ follower_ids = Filter(followers, existing_ids)

\* C5 -- Rate limits are always recovered: after a 429 to a listing or lookup
\* request the same request is pending again; the page or chunk is not left
\* and the run is not aborted.
C5_RateLimitRecovered ==
    [][(pc \in {"listing", "lookup"} /\ Requesting /\ response' = "429")
        => (pc' = pc /\ next_cursor' = next_cursor /\ i' = i /\ store' = store)]_vars

\* C6 -- Transport retry in the Enricher: a connection error after fewer than
\* retries - 1 earlier ones keeps the chunk pending; a faithful success appends
\* the chunk's resolved users; the third consecutive connection error skips
\* the chunk, leaving no row for any of its ids in the Store.
C6_TransportRetry ==
    [][(pc = "lookup" /\ Requesting) =>
        /\ (response' = "ConnectionError" /\ CaughtBefore = attempt
                /\ CaughtBefore + 1 < retries)
             => (pc' = "lookup" /\ i' = i /\ store' = store)
        /\ (response' = "200" /\ budget' = budget)
             => store' = store \o RowsOf(HonestLookup(ids_chunk))
        /\ (response' = "ConnectionError" /\ CaughtBefore + 1 = retries)
             => /\ i' > i
                /\ pc' \in {"lookup", "report"}
                /\ store' = store
                /\ Range(ids_chunk) \cap StoreIds' = {}]_vars

\* one chunk was appended and the next one was skipped after three connection
\* errors; the run went on to the report
C6_Witness ==
    /\ appended = 1
    /\ store # <<>>
    /\ response = "ConnectionError"
    /\ connection_errors = retries
    /\ pc = "report"

\* C7 -- Listing requests inherit the transport retry: a connection error on a
\* followers/ids request that has not yet failed retries times is retried with
\* the same cursor.  (No listing request is ever retried after a connection
\* error, so connection_errors is 0 whenever a listing request is pending.)
C7_ListingTransportRetry ==
    [][(pc = "listing" /\ Requesting /\ response' = "ConnectionError"
            /\ connection_errors + 1 < retries)
        => (pc' = "listing" /\ next_cursor' = next_cursor)]_vars

\* C8 -- not_found is an empty result, never an error: after a 404 to a
\* listing or lookup request the run goes on without an exception and without
\* writing a row.
C8_NotFoundIsEmpty ==
    [][(pc \in {"listing", "lookup"} /\ Requesting /\ response' = "404")
        => (pc' \in {"listing", "lookup", "report"} /\ error' = "none"
            /\ store' = store)]_vars

\* C9 -- Any other status is fatal with no retry: the step that receives it
\* (from the count, listing or lookup endpoint)
\* ends the run without writing a row or rendering the report, and until main
\* is started again no request is issued, no row is appended and no report is
\* rendered; the rows appended before stay.
C9_OtherStatusFatal ==
    [][/\ (pc \in {"count", "listing", "lookup"} /\ Requesting /\ response' = "500")
           => (pc' = "aborted" /\ store' = store /\ report' = <<>>)
       /\ (pc = "aborted" /\ response = "500" /\ runs' = runs)
           => UNCHANGED <<requests, store, report>>]_vars

\* a lookup was answered with another status after a chunk had been appended:
\* the run is over and the rows are still there
C9_Witness ==
    /\ pc = "aborted" /\ error = "Exception" /\ response = "500"
    /\ requests[Len(requests)].endpoint = "lookup"
    /\ appended >= 1
    /\ store # <<>>
    /\ report = <<>>

\* C10 -- The progress computation never divides by zero: whatever the
\* estimate, pagination raises no arithmetic error and the percentage is at
\* most 100.
C10_NoDivisionByZero ==
    /\ error # "ZeroDivisionError"
    /\ progress_percentage <= 100

\* a listing or lookup request of this step is answered with a 429
RateLimited == pc \in {"listing", "lookup"} /\ Requesting /\ response' = "429"

\* C11 -- Reset header missing or malformed: a 429 to a listing or lookup
\* request whose x-rate-limit-reset header is missing or is not an integer
\* makes the loop sleep a positive time; the run is not aborted.
C11_ResetHeaderFallback ==
    [][(RateLimited /\ reset_header'.kind \in {"absent", "malformed"})
        => (sleep_duration' > 0 /\ error' = "none" /\ pc' # "aborted")]_vars

\* the last request repeats the one before it
SameRequestAgain ==
    /\ Len(requests') >= 2
    /\ requests'[Len(requests')] = requests'[Len(requests') - 1]

\* C12 -- Rate-limit recovery is parameter-preserving: the request after a
\* 429 (in the Collector, and in the Enricher while the chunk is retried)
\* repeats the rate-limited request, and the sleep after a 429 with a
\* well-formed header is max(reset instant - now, floor) for a positive floor,
\* also when the reset instant is in the past.
C12_RateLimitRecovery ==
    [][/\ (Requesting /\ response = "429"
              /\ (pc = "listing" \/ (pc = "lookup" /\ attempt > 0)))
           => SameRequestAgain
       /\ (RateLimited /\ reset_header'.kind = "int")
           => \E floor \in 1..default_reset :
                  sleep_duration' = Max(reset_header'.offset, floor)]_vars

\* the ids of ids_list from position j on
Rest(j) == Range(SubSeq(ids_list, j + 1, Len(ids_list)))

\* a lookup request of this run carried the id
Requested(id) ==
    \E k \in 1..Len(requests) :
        requests[k].endpoint = "lookup" /\ id \in Range(requests[k].user_id)

\* the step receives the ConnectionError that exhausts the chunk's retries
Exhausting ==
    /\ pc = "lookup" /\ Requesting
    /\ response' = "ConnectionError"
    /\ CaughtBefore + 1 = retries

C14_StoreAppendOnly ==
    [][/\ fileExists => fileExists'
       /\ Len(store') >= Len(store)
       /\ SubSeq(store', 1, Len(store)) = store]_vars

\* a second run found rows in the Store, asked for the ids that were missing
\* and was ended by another status before it appended anything: the rows of
\* the first run are still there
C14_Witness ==
    /\ runs = 2 /\ pc = "aborted" /\ error = "Exception"
    /\ requests[Len(requests)].endpoint = "lookup"
    /\ appended = 0
    /\ store # <<>>

\* how many rows carry this followers_count, and how many a larger one
NumWith(rows, v) == Cardinality({k \in 1..Len(rows) : rows[k].followers_count = v})

NumAbove(rows, v) == Cardinality({k \in 1..Len(rows) : rows[k].followers_count > v})

Occurs(rows, r) == Cardinality({k \in 1..Len(rows) : rows[k] = r})

\* shown holds the min(n, |rows|) records of rows with the largest
\* followers_count, largest first: it has that length, it is descending, each
\* of its records is a record of rows (as often at most), and of every count
\* it takes as many records as are left after the larger counts are served
TopRecords(shown, rows, n) ==
    /\ Len(shown) = Min(n, Len(rows))
    /\ \A k \in 1..(Len(shown) - 1) :
           shown[k].followers_count >= shown[k + 1].followers_count
    /\ \A r \in Range(shown) : Occurs(shown, r) <= Occurs(rows, r)
    /\ \A r \in Range(rows) :
           NumWith(shown, r.followers_count) =
               Min(NumWith(rows, r.followers_count),
                   Max(0, Len(shown) - NumAbove(rows, r.followers_count)))

\* C15 -- Report correctness: the report display_top_followers rendered is
\* the top_n records of the Store with the largest followers_count in
\* descending order, and for every N the sorted frame cut at N is the
\* min(N, |Store|) records with the largest followers_count in descending
\* order.
C15_ReportCorrect ==
    /\ pc = "done" => TopRecords(report, store, top_n)
    /\ \A n \in 0..(Len(store) + 1) :
           TopRecords(DfHead(SortValues(store), n), store, n)

\* a Store of more than top_n rows was found and rendered without fetching;
\* the rows shown are not the first rows of the file
C15_Witness ==
    /\ pc = "done" /\ runs = 1 /\ requests = <<>>
    /\ Len(store) > top_n
    /\ report # SubSeq(store, 1, top_n)

\* C16 -- The count endpoint never affects correctness: the result of a first
\* run that ended without being killed is the one the listing and the lookups
\* determine, whatever the count endpoint reported: get_all_follower_ids
\* returned (nothing was raised before the report) exactly the listed ids and
\* the Store holds one row per listed account that exists.  Two runs that
\* differ in the reported count alone then end alike.
C16_CountIrrelevant ==
    (runs = 1 /\ pc \in {"done", "aborted"}) =>
        /\ error \in {"none", "FileNotFoundError"}
        /\ follower_ids = Filter(followers, existing_ids)
        /\ store = UninterruptedStore

\* a lookup request is issued by this step and answered successfully
Resolving == pc = "lookup" /\ Requesting /\ response' = "200"

\* C17 -- At-most-once resolution: with a provider that answers a successful
\* lookup with the requested accounts, no lookup request carries an id of
\* known_ids as it is when the request is issued, and every row a response
\* appends is for an id that has no row yet, so no id is resolved by two
\* requests (retried requests included).
C17_AtMostOnceResolution ==
    [][/\ (pc = "lookup" /\ Requesting)
           => Range(requests'[Len(requests')].user_id) \cap known_ids = {}
       /\ Resolving
           => /\ \A k \in (Len(store) + 1)..Len(store') : store'[k].id \notin StoreIds
              /\ \A j, k \in (Len(store) + 1)..Len(store') :
                     store'[j].id = store'[k].id => j = k]_vars

\* the follower list repeats an id, a lookup request was issued twice (a
\* retry after a failure), and the run ended with one row per id
C17_Witness ==
    /\ pc = "done" /\ runs = 1
    /\ Len(follower_ids) > Cardinality(Range(follower_ids))
    /\ \E j, k \in 1..Len(requests) :
           j < k /\ requests[j].endpoint = "lookup" /\ requests[j] = requests[k]
    /\ Len(store) = Cardinality(StoreIds)
    /\ Cardinality(StoreIds) >= 2

\* C18 -- Enrichment progress reaches 100%: once get_user_details has gone
\* through a non-empty id list, whatever happened to its chunks (resolved,
\* empty after filtering, not found, skipped), the progress it reported last
\* is 100%.
C18_ProgressComplete ==
    (pc \in {"report", "done"} /\ ids_list # <<>>) => details_progress = 100

\* C19 -- The Store file exists whenever main reaches display_top_followers,
\* also on a first run with no prior file, under either flag value, when the
\* pagination yields no new id.
C19_StoreExistsAtReport ==
    pc = "report" => fileExists

\* C20 -- "Use existing data only": a run started in this mode goes straight
\* to the report when the file exists and starts collecting when it does not;
\* a run of this mode that found the file issues no request and changes
\* neither the file nor its rows up to the rendering of the report, and a run
\* of this mode is never collecting while the file exists.
C20_ExistingDataOnly ==
    /\ [][/\ (runs' = runs + 1 /\ use_existing_data_only')
              => /\ pc' = (IF fileExists THEN "report" ELSE "count")
                 /\ requests' = <<>>
          /\ (use_existing_data_only /\ requests = <<>> /\ pc \in {"report", "done"}
                /\ runs' = runs)
              => /\ requests' = <<>>
                 /\ store' = store
                 /\ fileExists' = fileExists
                 /\ pc' = "done" => report' = DfHead(SortValues(store), top_n)]_vars
    /\ [](use_existing_data_only /\ pc \in {"count", "listing"} => ~fileExists)

\* a first run in this mode found a file with rows and rendered them without
\* a single request
C20_Witness ==
    /\ runs = 1 /\ use_existing_data_only /\ pc = "done"
    /\ requests = <<>>
    /\ store # <<>>
    /\ Len(report) = Min(top_n, Len(store))
    /\ exhausted_ids = {}

====
